---- MODULE Spec2Model ----
(***************************************************************************)
(* Model of src/engine/timestamp.c: the timestamp value type, the binding  *)
(* table (bindhash), timestamp_from_path(), its scan callback time_enter() *)
(* and timestamp_done().                                                   *)
(*                                                                         *)
(* timestamp_from_path() is one synchronous call.  It is split at the      *)
(* points where control leaves the file (file_dirscan, file_archscan and   *)
(* their callbacks), sequenced by pc, so that the callbacks are visible as *)
(* steps.  Nothing else can run between two steps of a call.               *)
(*                                                                         *)
(* Spec is one run of the cache: every call of timestamp_from_path up to,  *)
(* and not including, the teardown.  LifeSpec adds timestamp_done and what *)
(* the code does when it is used after the teardown.  NestSpec is a run in *)
(* which a directory is asked about as well as its entries.  TimeSpec is   *)
(* the functions on timestamp values, applied to arguments of all sizes.   *)
(***************************************************************************)
EXTENDS Integers, Sequences, FiniteSets, TLC

(***************************************************************************)
(* Bounds of the model.                                                    *)
(***************************************************************************)
MaxSecs == 1        \* seconds values the collaborators hand over: 0..MaxSecs
CallCap == 2        \* the call counters saturate at CallCap
MaxAfterDone == 1   \* timestamp_from_path calls explored after timestamp_done

\* The arithmetic of the functions on timestamp values is checked at a
\* reduced scale: int has IntBits bits instead of 32, time_t is wider than
\* int and holds 0..MaxTimeSecs, a second has TicksPerSec FILETIME ticks of
\* NsecsPerTick nanoseconds instead of 10000000 ticks of 100, and
\* secs_between_epochs stands for 11644473600.
IntBits == 4
MaxTimeSecs == 16
MaxNsecs == 1
TicksPerSec == 2
NsecsPerTick == 3
secs_between_epochs == 3
MaxTicks == 39

(***************************************************************************)
(* timestamp.c, lines 44-52: flag and progress values of a BINDING.        *)
(***************************************************************************)
BIND_SCANNED == 1
BIND_INIT == 0
BIND_NOENTRY == 1
BIND_SPOTTED == 2
BIND_MISSING == 3
BIND_FOUND == 4

(***************************************************************************)
(* The timestamp value type.                                               *)
(***************************************************************************)
timestamp_init(secs, nsecs) == [secs |-> secs, nsecs |-> nsecs]

\* Variant: only the nanoseconds are zeroed.
timestamp_clear_NsecsOnly(time) == [time EXCEPT !.nsecs = 0]

\* lines 101-104: overwrites both fields of *time in place.
timestamp_clear(time) == [time EXCEPT !.secs = 0, !.nsecs = 0]

timestamp_copy(source) == [secs |-> source.secs, nsecs |-> source.nsecs]

timestamp_empty(time) == (time.secs = 0) /\ (time.nsecs = 0)

\* Conversion of a wider integer to int: the value modulo 2^IntBits.
ToInt(x) == ((x + 2 ^ (IntBits - 1)) % (2 ^ IntBits)) - 2 ^ (IntBits - 1)

\* lines 107-112: nsecs is an int and the difference of two nsecs of
\* 0..MaxNsecs is one; secs is a time_t, and the difference of two is
\* converted to the int that is returned.
timestamp_cmp(lhs, rhs) ==
    IF lhs.secs = rhs.secs THEN lhs.nsecs - rhs.nsecs
    ELSE ToInt(lhs.secs - rhs.secs)

\* lines 276-283
timestamp_max(lhs, rhs) ==
    IF timestamp_cmp(lhs, rhs) > 0 THEN timestamp_copy(lhs) ELSE timestamp_copy(rhs)

\* lines 79-97: in is the 64-bit tick count copied out of the FILETIME.
timestamp_from_filetime(in) ==
    timestamp_init((in \div TicksPerSec) - secs_between_epochs,
                   ToInt(in % TicksPerSec) * NsecsPerTick)

\* The timestamps the functions on timestamp values are applied to.
TimeValues == { timestamp_init(s, n) : s \in 0..MaxTimeSecs, n \in 0..MaxNsecs }

\* The tick counts timestamp_from_filetime is applied to.
Ticks == 0..MaxTicks

NoCalc == [op |-> "none", lhs |-> timestamp_init(0, 0), rhs |-> timestamp_init(0, 0),
           result |-> 0, max |-> timestamp_init(0, 0), in |-> 0, in2 |-> 0]

\* The timestamps the scanners and file_time may hand over.
Timestamps == {timestamp_init(0, 0)} \cup {timestamp_init(s, 0) : s \in 1..MaxSecs}

(***************************************************************************)
(* Paths.  A parsed path (PATHNAME) is its grist, its components (the      *)
(* directory components followed by the base name) and its archive member. *)
(***************************************************************************)
Path(grist, comps, member) == [grist |-> grist, comps |-> comps, member |-> member]

\* The paths a caller may ask about.
RawPaths ==
    { Path("", <<"d", "a">>, ""),
      Path("", <<"d", "A">>, ""),
      Path("g", <<"d", "a">>, ""),
      Path("", <<"d", "lib">>, "m"),
      Path("", <<"d", "lib">>, "n") }

\* The paths asked about in NestSpec: the directory d itself, whose parent
\* is the directory with the empty name, a file in d and an archive member.
NestPaths ==
    { Path("", <<"d">>, ""),
      Path("", <<"d", "a">>, ""),
      Path("", <<"d", "lib">>, "m") }

\* path_as_key(): the cache key of a path; names are folded to one case.
FoldName(n) == IF n = "A" THEN "a" ELSE n

path_as_key(p) ==
    Path(p.grist, [i \in 1..Len(p.comps) |-> FoldName(p.comps[i])], p.member)

\* Variant: path_parent() is left out.
DirName_NoParent(f1) == Path("", f1.comps, "")

\* lines 189-192: f2 = f1 without grist; path_parent(); path_build().
DirName(f1) ==
    Path("", IF Len(f1.comps) = 0 THEN << >> ELSE SubSeq(f1.comps, 1, Len(f1.comps) - 1), "")

\* Variant: the member is not stripped.
ArchName_KeepsMember(f1) == Path("", f1.comps, f1.member)

\* lines 221-225: f2 = f1 without grist and member; path_build().
ArchName(f1) == Path("", f1.comps, "")

\* Every key the table can come to hold: the keys of the paths asked about,
\* the directory d, its parent and the archive d/lib.
Keys ==
    { path_as_key(p) : p \in RawPaths \cup NestPaths }
        \cup { Path("", << >>, ""), Path("", <<"d">>, ""), Path("", <<"d", "lib">>, "") }

\* The raw spellings under which a scanner may report the entry with key k.
RawOf(k) == { p \in RawPaths \cup NestPaths : path_as_key(p) = k }

\* file_dirscan( name ) enumerates the immediate entries of directory name.
DirEntries(name) ==
    { k \in Keys : k.grist = "" /\ k.member = "" /\ k # name /\ DirName(k) = name }

\* file_archscan( name ) enumerates the members of archive name.
ArchEntries(name) ==
    { k \in Keys : k.grist = "" /\ k.member # "" /\ ArchName(k) = name }

(***************************************************************************)
(* The binding table.  A table is a function from the keys it holds to     *)
(* their BINDING records (name is the key itself).                         *)
(***************************************************************************)
EmptyHash == [k \in {} |-> 0]

\* lines 169-172, 199-202, 232-235: a record new to timestamp_from_path;
\* junk is what the fresh record's time field held before it was cleared.
NewBinding(junk) ==
    [flags |-> 0, progress |-> BIND_INIT, time |-> timestamp_clear(junk)]

\* hash_insert() followed by the caller's initialisation when not found.
hash_insert(h, k, init) ==
    IF k \in DOMAIN h THEN h
    ELSE [x \in DOMAIN h \cup {k} |-> IF x = k THEN init ELSE h[x]]

HashSet(h, k, rec) == [h EXCEPT ![k] = rec]

IsScanned(flags) == flags % 2 = BIND_SCANNED

\* Variant: the flag is never set.
SetScanned_Forgotten(flags) == flags

SetScanned(flags) == IF IsScanned(flags) THEN flags ELSE flags + BIND_SCANNED

VARIABLES
    bindhash,       \* "null", "live", or "freed" (released but still pointed to)
    bindings,       \* the table bindhash points to
    stale,          \* what the released table held
    pc,             \* position of the call in progress, "idle" between calls
    path,           \* argument of the call in progress / of the last call
    b,              \* key of the target binding of that call
    time,           \* the caller's timestamp written by timestamp_from_path
    name,           \* key of the container being scanned
    pending,        \* entries the running scan has still to enumerate
    op,             \* the last operation that took a step
    calls,          \* history: file_dirscan / file_archscan / file_time calls per key
    reported,       \* history: what the scans handed to time_enter, per key
    entry,          \* history: facts about the table when the current call began
    thisCall,       \* history: scans and probes made by the current call
    afterDone,      \* history: calls begun since timestamp_done released the table
    calc            \* the last call of a function on timestamp values, with its results

vars == << bindhash, bindings, stale, pc, path, b, time, name, pending, op,
           calls, reported, entry, thisCall, afterDone, calc >>

(***************************************************************************)
(* History records.                                                        *)
(***************************************************************************)
NoCalls == [dirscan |-> [k \in Keys |-> 0], archscan |-> [k \in Keys |-> 0],
            file_time |-> [k \in Keys |-> 0]]

Bump(n) == IF n < CallCap THEN n + 1 ELSE n

Count(c, kind, k) == [c EXCEPT ![kind][k] = Bump(@)]

NotReported == [seen |-> FALSE, found |-> 0, time |-> timestamp_init(0, 0)]

\* handed: what the running scan gave time_enter in its latest step.
NotHanded == [any |-> FALSE, key |-> Path("", << >>, ""), found |-> 0,
              time |-> timestamp_init(0, 0)]

\* probed: what file_time answered in the current call.
NotProbed == [any |-> FALSE, ok |-> FALSE, time |-> timestamp_init(0, 0)]

NoCall == [scans |-> 0, archscans |-> 0, probes |-> 0, handed |-> NotHanded,
           probed |-> NotProbed]

\* progress: the target's progress when the call began, -1 without a binding.
NoEntryFacts == [repeat |-> FALSE, fresh |-> FALSE, known |-> FALSE, archDone |-> FALSE,
                 progress |-> -1]

Init ==
    /\ bindhash = "null"
    /\ bindings = EmptyHash
    /\ stale = EmptyHash
    /\ pc = "idle"
    /\ path = Path("", << >>, "")
    /\ b = Path("", << >>, "")
    /\ time = timestamp_init(0, 0)
    /\ name = Path("", << >>, "")
    /\ pending = {}
    /\ op = "none"
    /\ calls = NoCalls
    /\ reported = [k \in Keys |-> NotReported]
    /\ entry = NoEntryFacts
    /\ thisCall = NoCall
    /\ afterDone = 0
    /\ calc = NoCalc

(***************************************************************************)
(* timestamp_from_path(), lines 157-181: normalise the path, create the    *)
(* table on first use, find or insert the target binding, and either skip  *)
(* to afterscanning or mark the binding NOENTRY and go on to the scans.    *)
(***************************************************************************)
\* Variant: the early exit is missing.
SkipScanning_Never(progress) == FALSE

\* Variant: only a FOUND binding is taken as settled.
SkipScanning_OnlyFound(progress) == progress = BIND_FOUND

\* line 175: the scans are skipped for a binding that is not BIND_INIT.
SkipScanning(progress) == progress # BIND_INIT

Lookup(p, h0, junk) ==
    LET normalized_path == path_as_key(p)
        h1 == hash_insert(h0, normalized_path, NewBinding(junk))
        bind == h1[normalized_path]
    IN  /\ path' = p
        /\ b' = normalized_path
        /\ IF SkipScanning(bind.progress)
           THEN /\ bindings' = h1
                /\ pc' = "afterscanning"
           ELSE /\ bindings' = HashSet(h1, normalized_path,
                                       [bind EXCEPT !.progress = BIND_NOENTRY])
                /\ pc' = "dirpass"
        /\ op' = "timestamp_from_path"
        /\ entry' = [repeat |-> op = "timestamp_from_path" /\ b = normalized_path,
                     fresh |-> h0 = EmptyHash,
                     known |-> normalized_path \in DOMAIN h0,
                     archDone |-> calls.archscan[Path("", normalized_path.comps, "")] > 0,
                     progress |-> IF normalized_path \in DOMAIN h0
                                  THEN h0[normalized_path].progress ELSE -1]
        /\ thisCall' = NoCall
        /\ UNCHANGED << time, name, pending, calls, reported >>

timestamp_from_path(p) ==
    /\ pc = "idle"
    /\ bindhash \in {"null", "live"}
    /\ bindhash' = "live"
    /\ \E junk \in Timestamps :
           Lookup(p, IF bindhash = "null" THEN EmptyHash ELSE bindings, junk)
    /\ UNCHANGED << stale, afterDone, calc >>

(***************************************************************************)
(* lines 183-212: the directory pass.                                      *)
(***************************************************************************)
DirPass ==
    /\ pc = "dirpass"
    /\ \E junk \in Timestamps :
         LET nm == DirName(b)
             h1 == hash_insert(bindings, nm, NewBinding(junk))
         IN  /\ bindings' = h1
             /\ IF ~IsScanned(h1[nm].flags)
                THEN /\ pc' = "dirscan"
                     /\ name' = nm
                     /\ pending' = DirEntries(nm)
                     /\ calls' = Count(calls, "dirscan", nm)
                     /\ thisCall' = [thisCall EXCEPT !.scans = @ + 1]
                ELSE /\ pc' = "archpass"
                     /\ UNCHANGED << name, pending, calls, thisCall >>
    /\ UNCHANGED << bindhash, stale, path, b, time, op, reported, entry,
                    afterDone, calc >>

(***************************************************************************)
(* lines 214-245: the archive pass.                                        *)
(***************************************************************************)
\* Variant: the archive pass is made for every path.
HasMember_Always(f1) == TRUE

\* line 215
HasMember(f1) == f1.member # ""

ArchPass ==
    /\ pc = "archpass"
    /\ IF HasMember(b)
       THEN \E junk \in Timestamps :
              LET nm == ArchName(b)
                  h1 == hash_insert(bindings, nm, NewBinding(junk))
              IN  /\ bindings' = h1
                  /\ IF ~IsScanned(h1[nm].flags)
                     THEN /\ pc' = "archscan"
                          /\ name' = nm
                          /\ pending' = ArchEntries(nm)
                          /\ calls' = Count(calls, "archscan", nm)
                          /\ thisCall' = [thisCall EXCEPT !.scans = @ + 1,
                                                          !.archscans = @ + 1]
                     ELSE /\ pc' = "afterscanning"
                          /\ UNCHANGED << name, pending, calls, thisCall >>
       ELSE /\ pc' = "afterscanning"
            /\ UNCHANGED << bindings, name, pending, calls, thisCall >>
    /\ UNCHANGED << bindhash, stale, path, b, time, op, reported, entry,
                    afterDone, calc >>

(***************************************************************************)
(* time_enter(), lines 301-325: the callback of both scans.                *)
(***************************************************************************)
\* line 318
EnteredProgress(found) == IF found # 0 THEN BIND_FOUND ELSE BIND_SPOTTED

\* Variant: an existing binding is set up again like a new one.
time_enter_ResetsFlags(h, target, found, t) ==
    HashSet(hash_insert(h, path_as_key(target), NewBinding(t)), path_as_key(target),
            [flags |-> 0, progress |-> EnteredProgress(found), time |-> timestamp_copy(t)])

\* Variant: the time is stored only when the scan found one.
time_enter_TimeOnlyIfFound(h, target, found, t) ==
    HashSet(hash_insert(h, path_as_key(target), NewBinding(t)), path_as_key(target),
            [hash_insert(h, path_as_key(target), NewBinding(t))[path_as_key(target)]
               EXCEPT !.time = IF found # 0 THEN timestamp_copy(t) ELSE @,
                      !.progress = EnteredProgress(found)])

time_enter(h, target, found, t) ==
    LET key == path_as_key(target)
        h1 == hash_insert(h, key, [flags |-> 0, progress |-> BIND_INIT, time |-> t])
    IN  HashSet(h1, key, [h1[key] EXCEPT !.time = timestamp_copy(t),
                                         !.progress = EnteredProgress(found)])

\* The running scan reaches its next entry: the entry is not there, or it is
\* handed to time_enter with or without a timestamp.
ScanEntry ==
    /\ pc \in {"dirscan", "archscan"}
    /\ pending # {}
    /\ LET e == CHOOSE x \in pending : TRUE
       IN  /\ pending' = pending \ {e}
           /\ \/ /\ thisCall' = [thisCall EXCEPT !.handed = NotHanded]
                 /\ UNCHANGED << bindings, reported >>
              \/ \E target \in RawOf(e), found \in {0, 1}, t \in Timestamps :
                   /\ bindings' = time_enter(bindings, target, found, t)
                   /\ reported' = [reported EXCEPT ![e] =
                          [seen |-> TRUE, found |-> found,
                           time |-> IF found # 0 THEN t ELSE timestamp_init(0, 0)]]
                   /\ thisCall' = [thisCall EXCEPT !.handed =
                          [any |-> TRUE, key |-> e, found |-> found, time |-> t]]
    /\ UNCHANGED << bindhash, stale, pc, path, b, time, name, op, calls,
                    entry, afterDone, calc >>

\* lines 208 and 241: the scan has returned; the container is marked scanned.
ScanReturn ==
    /\ pc \in {"dirscan", "archscan"}
    /\ pending = {}
    /\ bindings' = HashSet(bindings, name,
                           [bindings[name] EXCEPT !.flags = SetScanned(@)])
    /\ pc' = IF pc = "dirscan" THEN "archpass" ELSE "afterscanning"
    /\ thisCall' = [thisCall EXCEPT !.handed = NotHanded]
    /\ UNCHANGED << bindhash, stale, path, b, time, name, pending, op, calls,
                    reported, entry, afterDone, calc >>

(***************************************************************************)
(* lines 247-265: probe a SPOTTED binding, then return its time or the     *)
(* empty timestamp.                                                        *)
(***************************************************************************)
\* Variant: the binding's time is returned whatever its progress.
Returned_Always(bind, out) == timestamp_copy(bind.time)

\* lines 256-259
Returned(bind, out) ==
    IF bind.progress = BIND_FOUND THEN timestamp_copy(bind.time)
    ELSE timestamp_clear(out)

\* Variant: a binding whose probe failed is probed again.
NeedsProbe_Retry(progress) == progress \in {BIND_SPOTTED, BIND_MISSING}

\* line 249
NeedsProbe(progress) == progress = BIND_SPOTTED

\* Variant: a failed file_time leaves the progress as it was.
Probed_FailureKeepsProgress(bind, ok, t) ==
    IF ok THEN [bind EXCEPT !.progress = BIND_FOUND, !.time = t] ELSE bind

\* Variant: the test of file_time's result is the wrong way round.
Probed_Inverted(bind, ok, t) ==
    IF ok THEN [bind EXCEPT !.progress = BIND_MISSING, !.time = t]
    ELSE [bind EXCEPT !.progress = BIND_FOUND]

\* lines 251-253: file_time() fails (ok = FALSE, time untouched) or stores t.
Probed(bind, ok, t) ==
    IF ok THEN [bind EXCEPT !.progress = BIND_FOUND, !.time = t]
    ELSE [bind EXCEPT !.progress = BIND_MISSING]

AfterScanning ==
    /\ pc = "afterscanning"
    /\ \E ok \in BOOLEAN, t \in Timestamps :
         LET probe == NeedsProbe(bindings[b].progress)
             bind == IF probe THEN Probed(bindings[b], ok, t) ELSE bindings[b]
         IN  /\ probe \/ (ok /\ t = timestamp_init(0, 0))
             /\ bindings' = HashSet(bindings, b, bind)
             /\ time' = Returned(bind, time)
             /\ calls' = IF probe THEN Count(calls, "file_time", b) ELSE calls
             /\ thisCall' = IF probe
                            THEN [thisCall EXCEPT !.probes = @ + 1,
                                    !.probed = [any |-> TRUE, ok |-> ok,
                                       time |-> IF ok THEN t ELSE timestamp_init(0, 0)]]
                            ELSE thisCall
    /\ pc' = "idle"
    /\ UNCHANGED << bindhash, stale, path, b, name, pending, op, reported, entry,
                    afterDone, calc >>

(***************************************************************************)
(* timestamp_done(), lines 342-349.  The table is released but bindhash    *)
(* is not reset: it keeps pointing at the released table.  The histories   *)
(* calls and reported are kept per run and start again here.               *)
(***************************************************************************)
\* Variant: the test of bindhash is missing.
timestamp_done_Unguarded ==
    /\ pc = "idle"
    /\ bindhash \in {"null", "live"}
    /\ IF bindhash # "null"
       THEN /\ stale' = bindings
            /\ bindings' = EmptyHash
            /\ bindhash' = "freed"
            /\ calls' = NoCalls
            /\ reported' = [k \in Keys |-> NotReported]
            /\ UNCHANGED pc
       ELSE /\ pc' = "crashed"
            /\ UNCHANGED << bindhash, bindings, stale, calls, reported >>
    /\ op' = "timestamp_done"
    /\ UNCHANGED << path, b, time, name, pending, entry, thisCall, afterDone, calc >>

timestamp_done ==
    /\ pc = "idle"
    /\ bindhash \in {"null", "live"}
    /\ IF bindhash # "null"
       THEN /\ stale' = bindings
            /\ bindings' = EmptyHash
            /\ bindhash' = "freed"
            /\ calls' = NoCalls
            /\ reported' = [k \in Keys |-> NotReported]
       ELSE UNCHANGED << bindhash, bindings, stale, calls, reported >>
    /\ op' = "timestamp_done"
    /\ UNCHANGED << pc, path, b, time, name, pending, entry, thisCall, afterDone, calc >>

(***************************************************************************)
(* Use of the released table (undefined behaviour).  bindhash is not null, *)
(* so line 161 does not create a table and hash_insert / hashenumerate run *)
(* on released memory: the process faults, or the memory still reads as    *)
(* the old table, or it reads as a table without entries.  Once the call   *)
(* has read the memory one way, stale is of no further use and is emptied. *)
(***************************************************************************)
FromPathAfterDone(p) ==
    /\ pc = "idle"
    /\ bindhash = "freed"
    /\ afterDone < MaxAfterDone
    /\ afterDone' = afterDone + 1
    /\ UNCHANGED << bindhash, calc >>
    /\ \/ /\ pc' = "crashed"
          /\ op' = "timestamp_from_path"
          /\ path' = p
          /\ UNCHANGED << bindings, stale, b, time, name, pending, calls, reported,
                          entry, thisCall >>
       \/ \E junk \in Timestamps, h0 \in {stale, EmptyHash} :
             /\ Lookup(p, h0, junk)
             /\ stale' = EmptyHash

DoneAfterDone ==
    /\ pc = "idle"
    /\ bindhash = "freed"
    /\ op' = "timestamp_done"
    /\ \/ pc' = "crashed" /\ UNCHANGED << bindings, stale >>
       \/ /\ stale' = IF bindings = EmptyHash THEN stale ELSE bindings
          /\ bindings' = EmptyHash
          /\ UNCHANGED pc
    /\ UNCHANGED << bindhash, path, b, time, name, pending, calls, reported,
                    entry, thisCall, afterDone, calc >>

NextLife ==
    \/ \E p \in RawPaths : timestamp_from_path(p)
    \/ DirPass
    \/ ArchPass
    \/ ScanEntry
    \/ ScanReturn
    \/ AfterScanning
    \/ timestamp_done
    \/ \E p \in RawPaths : FromPathAfterDone(p)
    \/ DoneAfterDone

Next ==
    \/ \E p \in RawPaths : timestamp_from_path(p)
    \/ DirPass
    \/ ArchPass
    \/ ScanEntry
    \/ ScanReturn
    \/ AfterScanning

NextNest ==
    \/ \E p \in NestPaths : timestamp_from_path(p)
    \/ DirPass
    \/ ArchPass
    \/ ScanEntry
    \/ ScanReturn
    \/ AfterScanning

(***************************************************************************)
(* Calls of the functions on timestamp values.  They touch no binding, and *)
(* a call's result depends on nothing but its arguments, so one call per   *)
(* behaviour covers them.                                                  *)
(***************************************************************************)
Quiet == UNCHANGED << bindhash, bindings, stale, pc, path, b, time, name, pending,
                      op, calls, reported, entry, thisCall, afterDone >>

Compare ==
    /\ calc.op = "none"
    /\ \E lhs \in TimeValues, rhs \in TimeValues :
         calc' = [NoCalc EXCEPT !.op = "timestamp_cmp", !.lhs = lhs, !.rhs = rhs,
                                !.result = timestamp_cmp(lhs, rhs)]
    /\ Quiet

Max ==
    /\ calc.op = "none"
    /\ \E lhs \in TimeValues, rhs \in TimeValues :
         calc' = [NoCalc EXCEPT !.op = "timestamp_max", !.lhs = lhs, !.rhs = rhs,
                                !.max = timestamp_max(lhs, rhs)]
    /\ Quiet

\* Two FILETIME values are converted and the results compared.
FromFiletime ==
    /\ calc.op = "none"
    /\ \E in \in Ticks, in2 \in Ticks :
         calc' = [NoCalc EXCEPT !.op = "timestamp_from_filetime", !.in = in, !.in2 = in2,
                                !.lhs = timestamp_from_filetime(in),
                                !.rhs = timestamp_from_filetime(in2),
                                !.result = timestamp_cmp(timestamp_from_filetime(in),
                                                         timestamp_from_filetime(in2))]
    /\ Quiet

NextTime ==
    \/ Compare
    \/ Max
    \/ FromFiletime

\* One run of the cache, teardown excluded.
Spec == Init /\ [][Next]_vars

\* One run in which a directory is also asked about as a path, so that its
\* binding is both a scanned container and an entry of its parent's scan.
NestSpec == Init /\ [][NextNest]_vars

\* The run, its teardown, and the calls made after it.
LifeSpec == Init /\ [][NextLife]_vars

\* Any sequence of calls of the functions on timestamp values.
TimeSpec == Init /\ [][NextTime]_vars

(***************************************************************************)
(* Properties of one run (Spec).                                           *)
(***************************************************************************)
IsCall == op = "timestamp_from_path"

CallReturned == pc = "idle" /\ IsCall

Scanning == pc \in {"dirpass", "dirscan", "archpass", "archscan"}

ParentDir(k) == Path("", IF k.comps = << >> THEN << >> ELSE SubSeq(k.comps, 1, Len(k.comps) - 1), "")

ParentArch(k) == Path("", k.comps, "")

\* C1: however many paths of one parent directory are queried, in any order
\* and any number of times, file_dirscan runs exactly once for that
\* directory: never twice for any key, and once for the parent of every
\* path a call has returned for.
C1_DirScannedExactlyOnce ==
    /\ \A k \in Keys : calls.dirscan[k] <= 1
    /\ CallReturned => calls.dirscan[ParentDir(b)] = 1

\* Two different keys of directory d have been queried; the later call
\* found d already scanned.
C1_Witness ==
    /\ CallReturned
    /\ b = Path("g", <<"d", "a">>, "")
    /\ ~entry.known /\ thisCall.scans = 0
    /\ Path("", <<"d", "a">>, "") \in DOMAIN bindings
    /\ bindings[Path("", <<"d", "a">>, "")].progress \in {BIND_NOENTRY, BIND_MISSING}
    /\ calls.dirscan[Path("", <<"d">>, "")] = 1

\* C2: a call for the key of the call just before it returns the same
\* timestamp as that call and runs neither file_dirscan nor file_archscan.
C2_RepeatedCallSameAnswerNoScan ==
    [][(pc = "afterscanning" /\ pc' = "idle" /\ entry.repeat)
         => (time' = time /\ thisCall.scans = 0)]_vars

C2_Witness ==
    /\ CallReturned /\ entry.repeat
    /\ ~timestamp_empty(time)
    /\ calls.dirscan[ParentDir(b)] = 1

\* C3: the first call of a run, for an archive member, runs file_archscan
\* exactly once on the member's archive, and file_time not at all when the
\* scan handed the member over with a timestamp; a call for a member of an
\* archive scanned earlier in the run runs no scan at all.
C3_ArchiveScannedOnce ==
    (CallReturned /\ b.member # "") =>
        /\ calls.archscan[ParentArch(b)] = 1
        /\ entry.fresh => thisCall.archscans = 1
        /\ (entry.fresh /\ reported[b].seen /\ reported[b].found # 0)
               => thisCall.probes = 0
        /\ entry.archDone => thisCall.scans = 0

\* Member n, which the scan of the archive did not hand over, is queried
\* after member m, which it handed over with a timestamp and no probe.
C3_Witness ==
    /\ CallReturned
    /\ b = Path("", <<"d", "lib">>, "n")
    /\ entry.archDone /\ ~entry.known /\ ~reported[b].seen
    /\ reported[Path("", <<"d", "lib">>, "m")].found = 1
    /\ calls.file_time[Path("", <<"d", "lib">>, "m")] = 0
    /\ calls.archscan[Path("", <<"d", "lib">>, "")] = 1

\* C4: no step of a run takes a binding from FOUND or MISSING to INIT or
\* NOENTRY (or removes it).
C4_NoRegress ==
    [][\A k \in DOMAIN bindings :
           bindings[k].progress \in {BIND_FOUND, BIND_MISSING}
             => /\ k \in DOMAIN bindings'
                /\ bindings'[k].progress \notin {BIND_INIT, BIND_NOENTRY}]_vars

\* A MISSING binding has been queried again, and a FOUND one exists.
C4_Witness ==
    /\ CallReturned /\ entry.repeat
    /\ bindings[b].progress = BIND_MISSING
    /\ \E k \in DOMAIN bindings : bindings[k].progress = BIND_FOUND

\* C5: a call for a key that no scan of the run has handed to time_enter
\* returns the empty timestamp, the first time and every later time.
C5_AbsentIsEmpty ==
    (CallReturned /\ ~reported[b].seen) => timestamp_empty(time)

\* A later query of a never reported key, after another call returned a
\* timestamp that is not empty.
C5_Witness ==
    /\ CallReturned /\ ~reported[b].seen /\ entry.known
    /\ \E k \in DOMAIN bindings :
           bindings[k].progress = BIND_FOUND /\ calls.file_time[k] = 1
              /\ ~timestamp_empty(bindings[k].time)

\* C6: a call returns the target binding's time if the binding ends FOUND
\* and (0,0) if it ends NOENTRY or MISSING; it ends in one of the three;
\* a key a scan handed over with timestamp T resolves to T.
C6_ReturnsTimeIffFound ==
    CallReturned =>
        /\ bindings[b].progress \in {BIND_NOENTRY, BIND_MISSING, BIND_FOUND}
        /\ time = IF bindings[b].progress = BIND_FOUND THEN bindings[b].time
                  ELSE [secs |-> 0, nsecs |-> 0]
        /\ (reported[b].seen /\ reported[b].found # 0) => time = reported[b].time

C6_Witness ==
    /\ CallReturned
    /\ b = Path("", <<"d", "a">>, "")
    /\ reported[b].seen /\ reported[b].found = 1
    /\ reported[b].time = [secs |-> 1, nsecs |-> 0]
    /\ time = [secs |-> 1, nsecs |-> 0]

\* C7: a binding that is NOENTRY, other than the target of a call still
\* doing its scans, stays NOENTRY in every later step, and no later step
\* scans its parent directory.
C7_NoEntryIsPermanent ==
    [][\A k \in DOMAIN bindings :
           (bindings[k].progress = BIND_NOENTRY /\ ~(k = b /\ Scanning))
             => /\ k \in DOMAIN bindings'
                /\ bindings'[k].progress = BIND_NOENTRY
                /\ calls'.dirscan[ParentDir(k)] = calls.dirscan[ParentDir(k)]]_vars

\* d/a settled at NOENTRY in an earlier call; the call that has just
\* returned scanned the archive, whose entries went through time_enter.
C7_Witness ==
    /\ CallReturned
    /\ b = Path("", <<"d", "lib">>, "m")
    /\ thisCall.archscans = 1 /\ reported[b].seen
    /\ Path("", <<"d", "a">>, "") \in DOMAIN bindings
    /\ bindings[Path("", <<"d", "a">>, "")].progress = BIND_NOENTRY

\* C14: the last step of a call runs file_time exactly when the target is
\* SPOTTED at that point; if file_time succeeds the target becomes FOUND with
\* the time file_time stored, if it fails the target becomes MISSING and the
\* call returns, with the empty timestamp.
C14_ProbeIffSpotted ==
    [][(pc = "afterscanning" /\ pc' = "idle") =>
         /\ thisCall'.probed.any <=> bindings[b].progress = BIND_SPOTTED
         /\ thisCall'.probes = IF bindings[b].progress = BIND_SPOTTED THEN 1 ELSE 0
         /\ (thisCall'.probed.any /\ thisCall'.probed.ok)
               => /\ bindings'[b].progress = BIND_FOUND
                  /\ bindings'[b].time = thisCall'.probed.time
         /\ (thisCall'.probed.any /\ ~thisCall'.probed.ok)
               => /\ bindings'[b].progress = BIND_MISSING
                  /\ timestamp_empty(time')]_vars

\* A call whose probe failed has returned; an earlier call's probe succeeded
\* and stored a time, and another target was returned without a probe.
C14_Witness ==
    /\ CallReturned
    /\ thisCall.probed.any /\ ~thisCall.probed.ok
    /\ bindings[b].progress = BIND_MISSING
    /\ \E k \in DOMAIN bindings :
           /\ bindings[k].progress = BIND_FOUND /\ calls.file_time[k] = 1
           /\ ~timestamp_empty(bindings[k].time)
    /\ \E k \in DOMAIN bindings :
           bindings[k].progress = BIND_NOENTRY /\ calls.file_time[k] = 0

\* C16: a call whose target is in the table as NOENTRY, MISSING or FOUND
\* when the call begins goes straight to its last step, and neither step
\* changes the table or runs file_dirscan, file_archscan or file_time.
C16_SettledTargetTouchesNothing ==
    [][/\ (pc = "idle" /\ pc' # "idle"
              /\ entry'.progress \in {BIND_NOENTRY, BIND_MISSING, BIND_FOUND})
          => (pc' = "afterscanning" /\ bindings' = bindings /\ calls' = calls)
       /\ (pc = "afterscanning"
              /\ entry.progress \in {BIND_NOENTRY, BIND_MISSING, BIND_FOUND})
          => /\ pc' = "idle" /\ bindings' = bindings /\ calls' = calls
             /\ thisCall'.scans = 0 /\ thisCall'.probes = 0]_vars

\* A call for a FOUND target has returned its time without a scan or probe;
\* the table also holds a MISSING and a NOENTRY binding.
C16_Witness ==
    /\ CallReturned
    /\ entry.progress = BIND_FOUND /\ ~timestamp_empty(time)
    /\ thisCall.scans = 0 /\ thisCall.probes = 0
    /\ \E k \in DOMAIN bindings : bindings[k].progress = BIND_MISSING
    /\ \E k \in DOMAIN bindings : bindings[k].progress = BIND_NOENTRY

NewlyScanned(k) ==
    /\ k \in DOMAIN bindings' /\ IsScanned(bindings'[k].flags)
    /\ ~(k \in DOMAIN bindings /\ IsScanned(bindings[k].flags))

\* C17: a call for a path without a member never runs file_archscan, and
\* the only bindings it adds are its target, the target's directory and
\* what the directory scan hands over, and the only one it marks scanned is
\* the directory; in a call for a member the archive pass begins only when
\* the directory is marked scanned; a container is not marked scanned while
\* its scan runs, and is marked by the step at which the scan returns.
C17_ArchivePassOnlyForMembers ==
    [][/\ (pc # "idle" /\ b.member = "")
          => /\ pc' # "archscan" /\ calls'.archscan = calls.archscan
             /\ thisCall'.archscans = 0
             /\ \A k \in DOMAIN bindings' \ DOMAIN bindings :
                    k = ParentDir(b) \/ (pc = "dirscan" /\ k = thisCall'.handed.key)
             /\ \A k \in Keys : NewlyScanned(k) => k = ParentDir(b)
       /\ (pc' \in {"archpass", "archscan"})
          => /\ ParentDir(b) \in DOMAIN bindings'
             /\ IsScanned(bindings'[ParentDir(b)].flags)
       /\ (pc' \in {"dirpass", "dirscan"}) => thisCall'.archscans = 0
       /\ (pc' \in {"dirscan", "archscan"}) => ~IsScanned(bindings'[name'].flags)
       /\ \A k \in Keys : NewlyScanned(k)
             => (pc \in {"dirscan", "archscan"} /\ pending = {} /\ k = name)]_vars

\* A call for d/a, which has no member, has returned without a scan of its
\* own, after a call for a member of d/lib that scanned d and then d/lib;
\* only d and d/lib are marked scanned.
C17_Witness ==
    /\ CallReturned
    /\ b = Path("", <<"d", "a">>, "")
    /\ ~entry.known /\ thisCall.scans = 0
    /\ calls.dirscan[Path("", <<"d">>, "")] = 1
    /\ calls.archscan[Path("", <<"d", "lib">>, "")] = 1
    /\ \A k \in DOMAIN bindings :
           IsScanned(bindings[k].flags)
             <=> k \in {Path("", <<"d">>, ""), Path("", <<"d", "lib">>, "")}

(***************************************************************************)
(* Properties of the teardown (LifeSpec).                                  *)
(***************************************************************************)
\* C8: after timestamp_done, the next call of timestamp_from_path behaves
\* as on a new cache: it completes, it starts from a table without entries,
\* and it scans the parent directory of its path again.
C8_FreshAfterDone ==
    (afterDone = 1 /\ IsCall) =>
        /\ pc # "crashed"
        /\ entry.fresh
        /\ pc = "idle" => thisCall.scans >= 1

\* C9: timestamp_done with bindhash null changes nothing: no table, no
\* binding, no pointer, no position.
C9_DoneOnNullIsNoOp ==
    [][(bindhash = "null" /\ op' = "timestamp_done")
         => UNCHANGED << bindhash, bindings, stale, pc, path, b, time, name,
                         pending, calls, reported, entry, thisCall, afterDone, calc >>]_vars

\* timestamp_done has run before any call of timestamp_from_path.
C9_Witness == bindhash = "null" /\ op = "timestamp_done" /\ pc = "idle"

(***************************************************************************)
(* Properties of a binding's time (Spec).                                  *)
(***************************************************************************)
\* C10: between calls, the time of every binding that is not FOUND is the
\* empty timestamp (0,0).
C10_TimeClearedUnlessFound ==
    pc = "idle" =>
        \A k \in DOMAIN bindings :
            bindings[k].progress # BIND_FOUND => timestamp_empty(bindings[k].time)

(***************************************************************************)
(* Properties of a run in which a directory is itself asked about          *)
(* (NestSpec).                                                             *)
(***************************************************************************)
\* C11: once a binding has BIND_SCANNED set, every later step of the run,
\* whether made by timestamp_from_path or by time_enter for a binding that
\* exists already, leaves the binding in the table with the flag set.
C11_ScannedStaysSet ==
    [][\A k \in DOMAIN bindings :
           IsScanned(bindings[k].flags)
             => /\ k \in DOMAIN bindings'
                /\ IsScanned(bindings'[k].flags)]_vars

\* Directory d was scanned by an earlier call; the call now running asks
\* about d itself, and the scan of d's parent has just handed d to
\* time_enter.
C11_Witness ==
    /\ pc = "dirscan"
    /\ b = Path("", <<"d">>, "")
    /\ thisCall.handed.any /\ thisCall.handed.key = b
    /\ calls.dirscan[b] = 1
    /\ IsScanned(bindings[b].flags)

\* C15: when a scan hands an entry to time_enter, the entry's binding, new or
\* not and whatever its progress was, gets the time handed over and the
\* progress FOUND if found is set, SPOTTED if not; a binding created by the
\* step is not marked scanned; every other binding is left as it was.
C15_TimeEnterOverwrites ==
    [][(pc \in {"dirscan", "archscan"} /\ pending' # pending /\ thisCall'.handed.any) =>
         LET k == thisCall'.handed.key
         IN  /\ DOMAIN bindings' = DOMAIN bindings \cup {k}
             /\ bindings'[k].time = thisCall'.handed.time
             /\ bindings'[k].progress =
                    IF thisCall'.handed.found # 0 THEN BIND_FOUND ELSE BIND_SPOTTED
             /\ k \notin DOMAIN bindings => ~IsScanned(bindings'[k].flags)
             /\ \A j \in DOMAIN bindings \ {k} : bindings'[j] = bindings[j]]_vars

\* The scan of d has just handed over the target d/a, which line 178 had set
\* to NOENTRY, without the found flag and with a time; d's parent had been
\* scanned by an earlier call, whose scan handed d over as FOUND.
C15_Witness ==
    /\ pc = "dirscan"
    /\ b = Path("", <<"d", "a">>, "")
    /\ thisCall.handed.any /\ thisCall.handed.key = b /\ thisCall.handed.found = 0
    /\ ~timestamp_empty(thisCall.handed.time)
    /\ bindings[b].progress = BIND_SPOTTED
    /\ bindings[b].time = thisCall.handed.time
    /\ calls.dirscan[Path("", << >>, "")] = 1
    /\ bindings[Path("", <<"d">>, "")].progress = BIND_FOUND

\* C19: between calls, every binding that is not INIT has its directory in
\* the table, marked scanned, and, when its key names an archive member, its
\* archive in the table, marked scanned.
C19_SettledHasScannedContainers ==
    pc = "idle" =>
        \A k \in DOMAIN bindings :
            bindings[k].progress # BIND_INIT
              => /\ ParentDir(k) \in DOMAIN bindings
                 /\ IsScanned(bindings[ParentDir(k)].flags)
                 /\ k.member # ""
                      => /\ ParentArch(k) \in DOMAIN bindings
                         /\ IsScanned(bindings[ParentArch(k)].flags)

\* Between calls, with d, d/a and the member m of d/lib all in the table
\* and none of them INIT: d was handed over by the scan of its parent, d/a
\* by the scan of d, and m by the scan of d/lib.
C19_Witness ==
    /\ CallReturned
    /\ \A k \in { Path("", <<"d">>, ""), Path("", <<"d", "a">>, ""),
                  Path("", <<"d", "lib">>, "m") } :
           /\ k \in DOMAIN bindings /\ bindings[k].progress # BIND_INIT
           /\ reported[k].seen
    /\ bindings[Path("", <<"d", "a">>, "")].progress = BIND_SPOTTED

\* C20: the step on which a call returns leaves its target NOENTRY, MISSING
\* or FOUND.  A binding becomes SPOTTED only by being handed to time_enter
\* without the found flag, so that between calls a SPOTTED binding is one a
\* scan handed over and that is not the target of the call just returned and
\* has never been probed.  No key is handed over again after a call for it,
\* and file_time runs at most once for a key.
C20_ReturnSettlesTarget ==
    [][/\ (pc # "idle" /\ pc' = "idle")
          => bindings'[b].progress \in {BIND_NOENTRY, BIND_MISSING, BIND_FOUND}
       /\ \A k \in DOMAIN bindings' :
             (bindings'[k].progress = BIND_SPOTTED
                /\ ~(k \in DOMAIN bindings /\ bindings[k].progress = BIND_SPOTTED))
               => /\ pc \in {"dirscan", "archscan"}
                  /\ thisCall'.handed.any /\ thisCall'.handed.key = k
                  /\ thisCall'.handed.found = 0
       /\ pc' = "idle"
          => \A k \in DOMAIN bindings' :
                bindings'[k].progress = BIND_SPOTTED
                  => /\ reported'[k].seen /\ reported'[k].found = 0
                     /\ k # b' /\ calls'.file_time[k] = 0
       /\ \A k \in Keys : calls'.file_time[k] <= 1]_vars

\* The target of the call just returned was handed over by a scan, probed
\* without success by an earlier call and not probed again by this one;
\* another binding the scan handed over is still SPOTTED.
C20_Witness ==
    /\ CallReturned /\ entry.repeat
    /\ entry.progress = BIND_MISSING /\ bindings[b].progress = BIND_MISSING
    /\ reported[b].seen /\ reported[b].found = 0
    /\ calls.file_time[b] = 1 /\ thisCall.probes = 0
    /\ \E k \in DOMAIN bindings : bindings[k].progress = BIND_SPOTTED

(***************************************************************************)
(* Properties of the functions on timestamp values (TimeSpec).             *)
(***************************************************************************)
Sign(x) == IF x < 0 THEN -1 ELSE IF x > 0 THEN 1 ELSE 0

\* The order of timestamps: by seconds, ties broken by nanoseconds.
LexSign(lhs, rhs) ==
    IF lhs.secs # rhs.secs THEN Sign(lhs.secs - rhs.secs)
    ELSE Sign(lhs.nsecs - rhs.nsecs)

\* C12: for every a and b, timestamp_cmp( timestamp_max( a, b ), a ) >= 0 and
\* timestamp_cmp( timestamp_max( a, b ), b ) >= 0.
C12_MaxIsUpperBound ==
    calc.op = "timestamp_max" =>
        /\ timestamp_cmp(calc.max, calc.lhs) >= 0
        /\ timestamp_cmp(calc.max, calc.rhs) >= 0

\* C13: the int timestamp_cmp( a, b ) returns is negative when a is earlier
\* than b, zero when both fields are equal and positive when a is later,
\* also when the difference of the seconds does not fit an int.
C13_CmpSignIsLexicographic ==
    calc.op = "timestamp_cmp" => Sign(calc.result) = LexSign(calc.lhs, calc.rhs)

\* The conversion taken by itself: the fields are the quotient less the epoch
\* offset and the remainder in nanoseconds, the tick count can be computed
\* back from them, and different tick counts give different timestamps.
FiletimeArithmeticIsExact ==
    calc.op = "timestamp_from_filetime" =>
        /\ calc.lhs.secs = (calc.in \div TicksPerSec) - secs_between_epochs
        /\ calc.lhs.nsecs = (calc.in % TicksPerSec) * NsecsPerTick
        /\ 0 <= calc.lhs.nsecs /\ calc.lhs.nsecs < TicksPerSec * NsecsPerTick
        /\ (calc.lhs.secs + secs_between_epochs) * TicksPerSec
              + (calc.lhs.nsecs \div NsecsPerTick) = calc.in
        /\ calc.in # calc.in2 => calc.lhs # calc.rhs

\* C18: timestamp_from_filetime loses nothing: secs is the tick count
\* divided by the ticks of a second less secs_between_epochs, nsecs is the
\* remainder times the nanoseconds of a tick and lies within one second,
\* the tick count can be computed back from the two, and the timestamps of
\* two different tick counts never compare equal under timestamp_cmp.
C18_FiletimeIsLossless ==
    /\ FiletimeArithmeticIsExact
    /\ (calc.op = "timestamp_from_filetime" /\ calc.in # calc.in2) => calc.result # 0

====
